---------------------------- MODULE Spec2Model ----------------------------
(***************************************************************************)
(* Model of the DX coil calculation pipeline of Coildesign.py:             *)
(* validate_inputs, calculate_coil_geometry, calculate_enhanced_circuits,  *)
(* calculate_refrigerant_performance, calculate_heat_transfer_coefficient, *)
(* calculate_pressure_drops, calculate_fin_efficiency, validate_design and *)
(* the part of main() that chains them.                                    *)
(*                                                                         *)
(* Numbers.  The program computes in binary floating point.  The model     *)
(* computes the same formulas in exact rational arithmetic: a rational is  *)
(* a record [n, d] of two naturals of arbitrary size (sequences of base    *)
(* 10000 limbs, least significant first), so no product overflows.  The    *)
(* decimal literals of the source are held as scaled integers (1.75 is     *)
(* 175/100).  Where the exact quotient handed to round() is a tie k + 1/2  *)
(* and the divisor is not a power of two, the floating-point quotient may  *)
(* land on either side of the tie; the model leaves that outcome open      *)
(* (fields fp_* of the request).  Values the source obtains from log, tanh *)
(* or a fractional power are kept as terms naming the correlation and its  *)
(* arguments; comparisons on them are decided exactly (see AirDpGreater).  *)
(***************************************************************************)
EXTENDS Integers, Sequences, FiniteSets, TLC

-----------------------------------------------------------------------------
(* Arbitrary-size naturals *)

Base == 10 ^ 4

RECURSIVE BigFromInt(_)
BigFromInt(n) == IF n = 0 THEN <<>> ELSE <<n % Base>> \o BigFromInt(n \div Base)

BigShift(a) == IF a = <<>> THEN <<>> ELSE <<0>> \o a

\* a * k + carry for a small factor k (k * Base stays below 2^31)
RECURSIVE BigMulSmallCarry(_, _, _)
BigMulSmallCarry(a, k, carry) ==
    IF a = <<>> THEN BigFromInt(carry)
    ELSE LET t == Head(a) * k + carry
         IN  <<t % Base>> \o BigMulSmallCarry(Tail(a), k, t \div Base)

BigMulSmall(a, k) == IF k = 0 THEN <<>> ELSE BigMulSmallCarry(a, k, 0)

RECURSIVE BigAddCarry(_, _, _)
BigAddCarry(a, b, carry) ==
    IF a = <<>> /\ b = <<>> THEN BigFromInt(carry)
    ELSE LET x == IF a = <<>> THEN 0 ELSE Head(a)
             y == IF b = <<>> THEN 0 ELSE Head(b)
             t == x + y + carry
         IN  <<t % Base>> \o BigAddCarry(IF a = <<>> THEN <<>> ELSE Tail(a),
                                         IF b = <<>> THEN <<>> ELSE Tail(b),
                                         t \div Base)

BigAdd(a, b) == BigAddCarry(a, b, 0)

\* schoolbook product, one limb of b at a time
RECURSIVE BigMulLimbs(_, _)
BigMulLimbs(a, b) ==
    IF a = <<>> \/ b = <<>> THEN <<>>
    ELSE BigAdd(BigMulSmall(a, Head(b)), BigShift(BigMulLimbs(a, Tail(b))))

BigMul(a, b) == IF Len(a) < Len(b) THEN BigMulLimbs(b, a) ELSE BigMulLimbs(a, b)

\* a - b for a >= b
RECURSIVE BigSubBorrow(_, _, _)
BigSubBorrow(a, b, borrow) ==
    IF a = <<>> THEN <<>>
    ELSE LET y == (IF b = <<>> THEN 0 ELSE Head(b)) + borrow
             t == IF Head(a) >= y THEN Head(a) - y ELSE Head(a) + Base - y
             rest == BigSubBorrow(Tail(a), IF b = <<>> THEN <<>> ELSE Tail(b),
                                  IF Head(a) >= y THEN 0 ELSE 1)
         IN  IF rest = <<>> /\ t = 0 THEN <<>> ELSE <<t>> \o rest

BigSub(a, b) == BigSubBorrow(a, b, 0)

\* -1, 0, 1 as a < b, a = b, a > b (limbs compared from the most significant)
RECURSIVE BigCmpFrom(_, _, _)
BigCmpFrom(a, b, i) ==
    IF i = 0 THEN 0
    ELSE IF a[i] < b[i] THEN -1
    ELSE IF a[i] > b[i] THEN 1
    ELSE BigCmpFrom(a, b, i - 1)

BigCmp(a, b) ==
    IF Len(a) < Len(b) THEN -1
    ELSE IF Len(a) > Len(b) THEN 1
    ELSE BigCmpFrom(a, b, Len(a))

-----------------------------------------------------------------------------
(* Exact rationals over them; every value of the pipeline is >= 0 *)

Rat(n, d) == [n |-> BigFromInt(n), d |-> BigFromInt(d)]
RatMul(x, y) == [n |-> BigMul(x.n, y.n), d |-> BigMul(x.d, y.d)]
RatDiv(x, y) == [n |-> BigMul(x.n, y.d), d |-> BigMul(x.d, y.n)]
RatAdd(x, y) == [n |-> BigAdd(BigMul(x.n, y.d), BigMul(y.n, x.d)), d |-> BigMul(x.d, y.d)]
\* x - y for x >= y
RatSub(x, y) == [n |-> BigSub(BigMul(x.n, y.d), BigMul(y.n, x.d)), d |-> BigMul(x.d, y.d)]
RatCmp(x, y) == BigCmp(BigMul(x.n, y.d), BigMul(y.n, x.d))
RatLess(x, y) == RatCmp(x, y) = -1
RatGreater(x, y) == RatCmp(x, y) = 1
RatEq(x, y) == RatCmp(x, y) = 0

\* floor(x) for x below 2^30, by bisection on lo <= floor(x) < hi
RECURSIVE FloorBetween(_, _, _)
FloorBetween(x, lo, hi) ==
    IF hi - lo <= 1 THEN lo
    ELSE LET mid == (lo + hi) \div 2
         IN  IF BigCmp(BigMul(x.d, BigFromInt(mid)), x.n) = 1
             THEN FloorBetween(x, lo, mid)
             ELSE FloorBetween(x, mid, hi)

RECURSIVE FloorUpper(_, _)
FloorUpper(x, hi) ==
    IF BigCmp(BigMul(x.d, BigFromInt(hi)), x.n) = 1 THEN hi ELSE FloorUpper(x, 2 * hi)

Floor(x) == FloorBetween(x, 0, FloorUpper(x, 1))

\* math.ceil
Ceil(x) ==
    LET q == Floor(x)
    IN  IF BigCmp(BigMul(x.d, BigFromInt(q)), x.n) = 0 THEN q ELSE q + 1

\* x is exactly k + 1/2
IsTie(x) ==
    BigCmp(BigMulSmall(x.n, 2), BigMul(x.d, BigFromInt(2 * Floor(x) + 1))) = 0

\* Python's round() of an exactly computed quotient: ties go to the even
\* neighbour
RoundHalfEven(x) ==
    LET q == Floor(x)
        c == BigCmp(BigMulSmall(x.n, 2), BigMul(x.d, BigFromInt(2 * q + 1)))
    IN  IF c = -1 THEN q
        ELSE IF c = 1 THEN q + 1
        ELSE IF q % 2 = 0 THEN q ELSE q + 1

\* Python's round() of a floating-point quotient whose exact value may be a
\* tie: off a tie the nearest integer; on a tie the rounding error of the
\* division decides, up = 0 the lower neighbour and up = 1 the upper one
RoundFloat(x, up) ==
    IF IsTie(x) THEN Floor(x) + up ELSE RoundHalfEven(x)

Max(a, b) == IF a >= b THEN a ELSE b
Min(a, b) == IF a <= b THEN a ELSE b

RatInt(k) == Rat(k, 1)

RECURSIVE BigPow(_, _)
BigPow(a, k) == IF k = 0 THEN <<1>> ELSE BigMul(BigPow(a, k - 1), a)

RatPow(x, k) == [n |-> BigPow(x.n, k), d |-> BigPow(x.d, k)]

\* a value that is a term (a correlation and its arguments), not a rational
IsTerm(x) == "corr" \in DOMAIN x

-----------------------------------------------------------------------------
(* Constants and property tables *)

BTU_PER_TR == 12000
TR_PER_ROW_EST == Rat(175, 100)
TUBE_PITCH_MM == 25
TUBE_LENGTH_FT == RatInt(4)
TARGET_FACE_VELOCITY_FPM == 450
MAX_AIR_PRESSURE_DROP == Rat(6, 10)

TubeKeys == <<"3/8 inch", "1/2 inch", "5/8 inch">>

TUBE_PROPERTIES ==
    [key \in {TubeKeys[i] : i \in 1..Len(TubeKeys)} |->
        CASE key = "3/8 inch" ->
               [outer_dia_in |-> Rat(375, 1000), inner_dia_in |-> Rat(311, 1000),
                area_ft2_per_ft |-> Rat(982, 10000), flow_area_in2 |-> Rat(760, 10000)]
          [] key = "1/2 inch" ->
               [outer_dia_in |-> Rat(500, 1000), inner_dia_in |-> Rat(402, 1000),
                area_ft2_per_ft |-> Rat(1309, 10000), flow_area_in2 |-> Rat(1267, 10000)]
          [] key = "5/8 inch" ->
               [outer_dia_in |-> Rat(625, 1000), inner_dia_in |-> Rat(527, 1000),
                area_ft2_per_ft |-> Rat(1636, 10000), flow_area_in2 |-> Rat(2182, 10000)]]

RefrigerantKeys == {"R410A", "R32", "R134a", "R407C"}

REFRIGERANT_PROPERTIES ==
    [key \in RefrigerantKeys |->
        CASE key = "R410A" ->
               [refrigerating_effect_btu_per_lbm |-> Rat(515, 10),
                vapor_density_lbm_per_ft3 |-> Rat(343, 100),
                dynamic_viscosity_lbm_per_ft_hr |-> Rat(30, 1000),
                thermal_conductivity_btu_per_hr_ft_f |-> Rat(58, 10000),
                specific_heat_btu_per_lbm_f |-> Rat(38, 100),
                circuits_per_tr |-> Rat(6, 10),
                min_velocity_fps |-> RatInt(10), max_velocity_fps |-> RatInt(50)]
          [] key = "R32" ->
               [refrigerating_effect_btu_per_lbm |-> Rat(952, 10),
                vapor_density_lbm_per_ft3 |-> Rat(285, 100),
                dynamic_viscosity_lbm_per_ft_hr |-> Rat(28, 1000),
                thermal_conductivity_btu_per_hr_ft_f |-> Rat(72, 10000),
                specific_heat_btu_per_lbm_f |-> Rat(45, 100),
                circuits_per_tr |-> Rat(7, 10),
                min_velocity_fps |-> RatInt(8), max_velocity_fps |-> RatInt(55)]
          [] key = "R134a" ->
               [refrigerating_effect_btu_per_lbm |-> Rat(718, 10),
                vapor_density_lbm_per_ft3 |-> Rat(412, 100),
                dynamic_viscosity_lbm_per_ft_hr |-> Rat(32, 1000),
                thermal_conductivity_btu_per_hr_ft_f |-> Rat(51, 10000),
                specific_heat_btu_per_lbm_f |-> Rat(35, 100),
                circuits_per_tr |-> Rat(5, 10),
                min_velocity_fps |-> RatInt(12), max_velocity_fps |-> RatInt(45)]
          [] key = "R407C" ->
               [refrigerating_effect_btu_per_lbm |-> Rat(583, 10),
                vapor_density_lbm_per_ft3 |-> Rat(328, 100),
                dynamic_viscosity_lbm_per_ft_hr |-> Rat(31, 1000),
                thermal_conductivity_btu_per_hr_ft_f |-> Rat(55, 10000),
                specific_heat_btu_per_lbm_f |-> Rat(37, 100),
                circuits_per_tr |-> Rat(6, 10),
                min_velocity_fps |-> RatInt(10), max_velocity_fps |-> RatInt(50)]]

-----------------------------------------------------------------------------
(* validate_inputs: tr in tenths of a TR, cfm an integer.  The messages    *)
(* are kept without the formatted ratio.                                   *)

\* validate_inputs without the upper limit of the airflow
validate_inputs_no_airflow_limit(tr_x10, cfm) ==
    LET e1 == IF tr_x10 <= 0 \/ tr_x10 > 1000
              THEN <<"Cooling capacity must be between 0.1 and 100 TR">> ELSE <<>>
        e2 == IF cfm <= 0
              THEN <<"Airflow must be between 1 and 50,000 CFM">> ELSE <<>>
        low  == IF tr_x10 > 0 THEN 10 * cfm < 300 * tr_x10 ELSE TRUE
        high == IF tr_x10 > 0 THEN 10 * cfm > 500 * tr_x10 ELSE FALSE
        w == IF low THEN <<"Low CFM/TR ratio">>
             ELSE IF high THEN <<"High CFM/TR ratio">> ELSE <<>>
    IN  [errors |-> e1 \o e2, warnings |-> w]

validate_inputs(tr_x10, cfm) ==
    LET e1 == IF tr_x10 <= 0 \/ tr_x10 > 1000
              THEN <<"Cooling capacity must be between 0.1 and 100 TR">> ELSE <<>>
        e2 == IF cfm <= 0 \/ cfm > 50000
              THEN <<"Airflow must be between 1 and 50,000 CFM">> ELSE <<>>
        \* cfm_per_tr = cfm / tr if tr > 0 else 0, compared with 300 and 500
        low  == IF tr_x10 > 0 THEN 10 * cfm < 300 * tr_x10 ELSE TRUE
        high == IF tr_x10 > 0 THEN 10 * cfm > 500 * tr_x10 ELSE FALSE
        w == IF low THEN <<"Low CFM/TR ratio">>
             ELSE IF high THEN <<"High CFM/TR ratio">> ELSE <<>>
    IN  [errors |-> e1 \o e2, warnings |-> w]

-----------------------------------------------------------------------------
(* calculate_coil_geometry *)

\* TUBE_PROPERTIES[tube_dia] is the one statement of the try block that can
\* raise for tr > 0 and cfm > 0
geometry_raises(tube_dia) == tube_dia \notin DOMAIN TUBE_PROPERTIES

tube_pitch_ft == RatDiv(RatInt(TUBE_PITCH_MM), Rat(3048, 10))

\* rows with the operands of the division exchanged
rows_of_inverted(tr) == Max(1, RoundFloat(RatDiv(TR_PER_ROW_EST, tr), 0))

\* rows without the max(1, ...)
rows_of_unclamped(tr) == RoundFloat(RatDiv(tr, TR_PER_ROW_EST), 0)

\* tr / 1.75 is never a tie for tr a multiple of 0.1 (4 * tr_x10 is even,
\* 35 * (2k + 1) is odd)
rows_of(tr) == Max(1, RoundFloat(RatDiv(tr, TR_PER_ROW_EST), 0))

tubes_per_row_float(cfm) ==
    RatDiv(RatDiv(RatInt(cfm), RatInt(TARGET_FACE_VELOCITY_FPM)),
           RatMul(TUBE_LENGTH_FT, tube_pitch_ft))

tubes_per_row_of(cfm, up) == Max(1, RoundFloat(tubes_per_row_float(cfm), up))

\* the geometry with a tube pitch of 2.5 outer diameters of the selected tube
\* instead of the fixed TUBE_PITCH_MM
calculate_coil_geometry_pitch_by_tube(tr, cfm, tube_dia, up) ==
    LET pitch_ft == RatDiv(RatMul(Rat(25, 10), TUBE_PROPERTIES[tube_dia].outer_dia_in),
                           RatInt(12))
        rows == rows_of(tr)
        tubes_per_row ==
            Max(1, RoundFloat(RatDiv(RatDiv(RatInt(cfm), RatInt(TARGET_FACE_VELOCITY_FPM)),
                                     RatMul(TUBE_LENGTH_FT, pitch_ft)), up))
        actual_coil_width_ft == RatMul(RatInt(tubes_per_row), pitch_ft)
        actual_face_area_ft2 == RatMul(TUBE_LENGTH_FT, actual_coil_width_ft)
        total_tubes == rows * tubes_per_row
        total_length_ft == RatMul(RatInt(total_tubes), TUBE_LENGTH_FT)
    IN  [rows |-> rows,
         tubes_per_row |-> tubes_per_row,
         total_tubes |-> total_tubes,
         actual_face_area_ft2 |-> actual_face_area_ft2,
         actual_face_velocity_fpm |-> RatDiv(RatInt(cfm), actual_face_area_ft2),
         surface_area_ft2 |->
             RatMul(total_length_ft, TUBE_PROPERTIES[tube_dia].area_ft2_per_ft),
         coil_width_ft |-> actual_coil_width_ft,
         coil_depth_ft |-> RatMul(RatInt(rows), pitch_ft)]

calculate_coil_geometry(tr, cfm, tube_dia, up) ==
    LET rows == rows_of(tr)
        tubes_per_row == tubes_per_row_of(cfm, up)
        actual_coil_width_ft == RatMul(RatInt(tubes_per_row), tube_pitch_ft)
        actual_face_area_ft2 == RatMul(TUBE_LENGTH_FT, actual_coil_width_ft)
        total_tubes == rows * tubes_per_row
        total_length_ft == RatMul(RatInt(total_tubes), TUBE_LENGTH_FT)
    IN  [rows |-> rows,
         tubes_per_row |-> tubes_per_row,
         total_tubes |-> total_tubes,
         actual_face_area_ft2 |-> actual_face_area_ft2,
         actual_face_velocity_fpm |-> RatDiv(RatInt(cfm), actual_face_area_ft2),
         surface_area_ft2 |->
             RatMul(total_length_ft, TUBE_PROPERTIES[tube_dia].area_ft2_per_ft),
         coil_width_ft |-> actual_coil_width_ft,
         coil_depth_ft |-> RatMul(RatInt(rows), tube_pitch_ft)]

-----------------------------------------------------------------------------
(* calculate_enhanced_circuits *)

circuits_raises(refrigerant) == refrigerant \notin DOMAIN REFRIGERANT_PROPERTIES

max_tubes_per_circuit == 18
target_velocity == 25

\* the capacity candidate with the table value taken as TR per circuit
circuits_from_capacity_per_circuit(tr, refrigerant, up) ==
    Max(1, RoundFloat(RatMul(tr, REFRIGERANT_PROPERTIES[refrigerant].circuits_per_tr), up))

circuits_from_capacity(tr, refrigerant, up) ==
    Max(1, RoundFloat(RatDiv(tr, REFRIGERANT_PROPERTIES[refrigerant].circuits_per_tr), up))

\* the tube-count candidate rounded down instead of up
circuits_from_tubes_floor(total_tubes) ==
    Max(1, Floor(RatDiv(RatInt(total_tubes), RatInt(max_tubes_per_circuit))))

circuits_from_tubes(total_tubes) ==
    Max(1, Ceil(RatDiv(RatInt(total_tubes), RatInt(max_tubes_per_circuit))))

total_mass_flow_of(tr, refrigerant) ==
    RatDiv(RatMul(tr, RatInt(BTU_PER_TR)),
           REFRIGERANT_PROPERTIES[refrigerant].refrigerating_effect_btu_per_lbm)

circuits_from_velocity(tr, refrigerant) ==
    LET ref_props == REFRIGERANT_PROPERTIES[refrigerant]
        \* list(TUBE_PROPERTIES.keys())[1]
        tube_props == TUBE_PROPERTIES[TubeKeys[2]]
        flow_area_ft2 == RatDiv(tube_props.flow_area_in2, RatInt(144))
        per_circuit == RatMul(RatMul(RatMul(RatInt(3600), ref_props.vapor_density_lbm_per_ft3),
                                     RatInt(target_velocity)), flow_area_ft2)
    IN  Max(1, RoundFloat(RatDiv(total_mass_flow_of(tr, refrigerant), per_circuit), 0))

\* calculate_enhanced_circuits without the final min(circuits, total_tubes)
calculate_enhanced_circuits_unclamped(tr, geometry, refrigerant, up) ==
    Max(Max(circuits_from_capacity(tr, refrigerant, up),
            circuits_from_tubes(geometry.total_tubes)),
        circuits_from_velocity(tr, refrigerant))

\* calculate_enhanced_circuits taking the smallest candidate
calculate_enhanced_circuits_smallest(tr, geometry, refrigerant, up) ==
    LET circuits == Min(Min(circuits_from_capacity(tr, refrigerant, up),
                            circuits_from_tubes(geometry.total_tubes)),
                        circuits_from_velocity(tr, refrigerant))
    IN  Min(circuits, geometry.total_tubes)

calculate_enhanced_circuits(tr, geometry, refrigerant, up) ==
    LET circuits == Max(Max(circuits_from_capacity(tr, refrigerant, up),
                            circuits_from_tubes(geometry.total_tubes)),
                        circuits_from_velocity(tr, refrigerant))
    IN  Min(circuits, geometry.total_tubes)

\* the fallback with halves rounded up instead of to the even neighbour
circuits_fallback_half_up(tr) == Max(1, Floor(RatAdd(RatDiv(tr, RatInt(2)), Rat(1, 2))))

\* the except branch: max(1, round(tr_design / 2)); a division by 2 is exact
circuits_fallback(tr) == Max(1, RoundHalfEven(RatDiv(tr, RatInt(2))))

-----------------------------------------------------------------------------
(* calculate_refrigerant_performance *)

\* the two table lookups, and total_mass_flow_lbm_hr / circuits
performance_raises(circuits, tube_dia, refrigerant) ==
    \/ refrigerant \notin DOMAIN REFRIGERANT_PROPERTIES
    \/ tube_dia \notin DOMAIN TUBE_PROPERTIES
    \/ circuits = 0

calculate_refrigerant_performance(tr, circuits, tube_dia, refrigerant) ==
    LET ref_props == REFRIGERANT_PROPERTIES[refrigerant]
        tube_props == TUBE_PROPERTIES[tube_dia]
        total_mass_flow_lbm_hr == total_mass_flow_of(tr, refrigerant)
        mass_flow_per_circuit_lbm_hr == RatDiv(total_mass_flow_lbm_hr, RatInt(circuits))
        mass_flow_per_circuit_lbm_s == RatDiv(mass_flow_per_circuit_lbm_hr, RatInt(3600))
        flow_area_ft2 == RatDiv(tube_props.flow_area_in2, RatInt(144))
        volumetric_flow_ft3_s ==
            RatDiv(mass_flow_per_circuit_lbm_s, ref_props.vapor_density_lbm_per_ft3)
    IN  [total_mass_flow_lbm_hr |-> total_mass_flow_lbm_hr,
         mass_flow_per_circuit_lbm_hr |-> mass_flow_per_circuit_lbm_hr,
         velocity_ft_s |-> RatDiv(volumetric_flow_ft3_s, flow_area_ft2),
         mass_velocity_lbm_hr_ft2 |-> RatDiv(mass_flow_per_circuit_lbm_hr, flow_area_ft2),
         volumetric_flow_ft3_s |-> volumetric_flow_ft3_s]

-----------------------------------------------------------------------------
(* calculate_heat_transfer_coefficient *)

\* reynolds = G * inner_dia_ft / mu
reynolds_of(ref_performance, tube_dia, refrigerant) ==
    LET inner_dia_ft == RatDiv(TUBE_PROPERTIES[tube_dia].inner_dia_in, RatInt(12))
    IN  RatDiv(RatMul(ref_performance.mass_velocity_lbm_hr_ft2, inner_dia_ft),
               REFRIGERANT_PROPERTIES[refrigerant].dynamic_viscosity_lbm_per_ft_hr)

heat_transfer_raises(tube_dia, refrigerant) ==
    \/ refrigerant \notin DOMAIN REFRIGERANT_PROPERTIES
    \/ tube_dia \notin DOMAIN TUBE_PROPERTIES

nusselt_of(reynolds, prandtl) ==
    IF RatGreater(reynolds, RatInt(10000))
    THEN [corr |-> "Gnielinski", reynolds |-> reynolds, prandtl |-> prandtl]
    ELSE IF RatGreater(reynolds, RatInt(2300))
    THEN [corr |-> "Dittus-Boelter", reynolds |-> reynolds, prandtl |-> prandtl]
    ELSE Rat(366, 100)

\* the label with 4000 counted as turbulent
flow_regime_of_turbulent_from_4000(reynolds) ==
    IF ~RatLess(reynolds, RatInt(4000)) THEN "Turbulent"
    ELSE IF RatGreater(reynolds, RatInt(2300)) THEN "Transition"
    ELSE "Laminar"

\* the label with 2300 counted as transition
flow_regime_of_transition_from_2300(reynolds) ==
    IF RatGreater(reynolds, RatInt(4000)) THEN "Turbulent"
    ELSE IF ~RatLess(reynolds, RatInt(2300)) THEN "Transition"
    ELSE "Laminar"

flow_regime_of(reynolds) ==
    IF RatGreater(reynolds, RatInt(4000)) THEN "Turbulent"
    ELSE IF RatGreater(reynolds, RatInt(2300)) THEN "Transition"
    ELSE "Laminar"

calculate_heat_transfer_coefficient(ref_performance, tube_dia, refrigerant) ==
    LET ref_props == REFRIGERANT_PROPERTIES[refrigerant]
        inner_dia_ft == RatDiv(TUBE_PROPERTIES[tube_dia].inner_dia_in, RatInt(12))
        reynolds == reynolds_of(ref_performance, tube_dia, refrigerant)
        k == ref_props.thermal_conductivity_btu_per_hr_ft_f
        prandtl == RatDiv(RatMul(ref_props.specific_heat_btu_per_lbm_f,
                                 ref_props.dynamic_viscosity_lbm_per_ft_hr), k)
        nusselt == nusselt_of(reynolds, prandtl)
    IN  [h_coeff |-> IF IsTerm(nusselt)
                     THEN [corr |-> "nusselt * k / inner_dia_ft", nusselt |-> nusselt,
                           k |-> k, inner_dia_ft |-> inner_dia_ft]
                     ELSE RatDiv(RatMul(nusselt, k), inner_dia_ft),
         reynolds |-> reynolds,
         prandtl |-> prandtl,
         nusselt |-> nusselt,
         flow_regime |-> flow_regime_of(reynolds)]

heat_transfer_fallback ==
    [h_coeff |-> RatInt(100), reynolds |-> RatInt(5000), prandtl |-> RatInt(1),
     nusselt |-> RatInt(20), flow_regime |-> "Estimated"]

-----------------------------------------------------------------------------
(* calculate_pressure_drops *)

\* the Reynolds number from the mass velocity per second instead of per hour
reynolds_ref_of_per_second(ref_performance, tube_dia, refrigerant) ==
    LET inner_dia_ft == RatDiv(TUBE_PROPERTIES[tube_dia].inner_dia_in, RatInt(12))
        G == RatDiv(ref_performance.mass_velocity_lbm_hr_ft2, RatInt(3600))
        mu == REFRIGERANT_PROPERTIES[refrigerant].dynamic_viscosity_lbm_per_ft_hr
    IN  RatDiv(RatMul(G, inner_dia_ft), mu)

\* the stage's own reynolds = G * inner_dia_ft / mu
reynolds_ref_of(ref_performance, tube_dia, refrigerant) ==
    LET inner_dia_ft == RatDiv(TUBE_PROPERTIES[tube_dia].inner_dia_in, RatInt(12))
        G == ref_performance.mass_velocity_lbm_hr_ft2
        mu == REFRIGERANT_PROPERTIES[refrigerant].dynamic_viscosity_lbm_per_ft_hr
    IN  RatDiv(RatMul(G, inner_dia_ft), mu)

\* the two table lookups, and 64 / reynolds at reynolds = 0
pressure_drops_raises(ref_performance, tube_dia, refrigerant) ==
    \/ refrigerant \notin DOMAIN REFRIGERANT_PROPERTIES
    \/ tube_dia \notin DOMAIN TUBE_PROPERTIES
    \/ reynolds_ref_of(ref_performance, tube_dia, refrigerant).n = <<>>

calculate_pressure_drops(ref_performance, geometry, tube_dia, refrigerant, fin_spacing_fpi) ==
    LET ref_props == REFRIGERANT_PROPERTIES[refrigerant]
        inner_dia_ft == RatDiv(TUBE_PROPERTIES[tube_dia].inner_dia_in, RatInt(12))
        reynolds == reynolds_ref_of(ref_performance, tube_dia, refrigerant)
        friction_factor ==
            IF RatGreater(reynolds, RatInt(2300))
            THEN [corr |-> "Blasius", reynolds |-> reynolds]
            ELSE RatDiv(RatInt(64), reynolds)
        rho == ref_props.vapor_density_lbm_per_ft3
        L_over_D == RatDiv(TUBE_LENGTH_FT, inner_dia_ft)
        dynamic == RatDiv(RatMul(rho, RatPow(ref_performance.velocity_ft_s, 2)),
                          Rat(2 * 32174 * 144, 1000))
    IN  [air_dp_inwg |->
             \* 0.0015 * velocity_ft_s^1.8 * (fin_spacing_fpi/12)^0.3 * rows^1.1
             [corr |-> "air_dp",
              velocity_ft_s |-> RatDiv(geometry.actual_face_velocity_fpm, RatInt(60)),
              fin_spacing_fpi |-> fin_spacing_fpi,
              rows |-> geometry.rows],
         ref_dp_psi |->
             IF IsTerm(friction_factor)
             THEN [corr |-> "Darcy-Weisbach", friction_factor |-> friction_factor,
                   L_over_D |-> L_over_D, dynamic |-> dynamic]
             ELSE RatMul(RatMul(friction_factor, L_over_D), dynamic),
         reynolds_ref |-> reynolds,
         friction_factor |-> friction_factor]

\* the placeholder with the two pressure drops exchanged
pressure_drops_fallback_exchanged ==
    [air_dp_inwg |-> RatInt(1), ref_dp_psi |-> Rat(1, 10),
     reynolds_ref |-> RatInt(5000), friction_factor |-> Rat(2, 100)]

pressure_drops_fallback ==
    [air_dp_inwg |-> Rat(1, 10), ref_dp_psi |-> RatInt(1),
     reynolds_ref |-> RatInt(5000), friction_factor |-> Rat(2, 100)]

\* air_dp > limit.  For the correlation both sides are raised to the 10th
\* power, which makes every exponent an integer:
\*   0.0015^10 * v^18 * (fpi/12)^3 * rows^11 > limit^10
AirDpGreater(air_dp, limit) ==
    IF ~IsTerm(air_dp) THEN RatGreater(air_dp, limit)
    ELSE LET lhs == RatMul(RatMul(RatPow(Rat(15, 10000), 10),
                                  RatPow(air_dp.velocity_ft_s, 18)),
                           RatMul(RatPow(Rat(air_dp.fin_spacing_fpi, 12), 3),
                                  RatPow(RatInt(air_dp.rows), 11)))
         IN  RatGreater(lhs, RatPow(limit, 10))

-----------------------------------------------------------------------------
(* calculate_fin_efficiency: the fin thickness in thousandths of an inch *)

\* the table lookup; math.sqrt(2 * h_air / (k_fin * fin_thickness_in)), a
\* division by zero at thickness 0 and a negative argument below it;
\* 1 / fin_spacing_fpi
fin_efficiency_raises(tube_dia, fin_spacing_fpi, fin_thickness_x1000) ==
    \/ tube_dia \notin DOMAIN TUBE_PROPERTIES
    \/ fin_thickness_x1000 <= 0
    \/ fin_spacing_fpi = 0

k_fin == 120

calculate_fin_efficiency(tube_dia, fin_spacing_fpi, fin_thickness_x1000, face_velocity_fpm) ==
    LET tube_props == TUBE_PROPERTIES[tube_dia]
        tube_pitch_in == RatDiv(RatInt(TUBE_PITCH_MM), Rat(254, 10))
        tube_outer_dia_in == tube_props.outer_dia_in
        fin_height_in == RatDiv(RatSub(tube_pitch_in, tube_outer_dia_in), RatInt(2))
        h_air == RatAdd(RatInt(8), RatMul(Rat(25, 1000), face_velocity_fpm))
        \* m = sqrt(m2), m_L = m * fin_height_in; m_L > 0.01 decided on squares
        m2 == RatDiv(RatMul(RatInt(2), h_air),
                     RatMul(RatInt(k_fin), Rat(fin_thickness_x1000, 1000)))
        m_L2 == RatMul(m2, RatPow(fin_height_in, 2))
        fin_eff == IF RatGreater(m_L2, RatPow(Rat(1, 100), 2))
                   THEN [corr |-> "tanh(m_L) / m_L", m_L_squared |-> m_L2]
                   ELSE RatInt(1)
        fin_spacing_in == Rat(1, fin_spacing_fpi)
        fin_area_per_tube == RatMul(RatMul(RatInt(2), fin_height_in), fin_spacing_in)
    IN  [fin_efficiency |-> fin_eff,
         surface_effectiveness |->
             [corr |-> "effective_surface_area / total_surface_area",
              fin_eff |-> fin_eff, fin_area_per_tube |-> fin_area_per_tube,
              tube_outer_dia_in |-> tube_outer_dia_in, fin_spacing_in |-> fin_spacing_in],
         fin_height_in |-> fin_height_in,
         h_air |-> h_air]

fin_efficiency_fallback ==
    [fin_efficiency |-> Rat(85, 100), surface_effectiveness |-> Rat(90, 100),
     fin_height_in |-> Rat(5, 10), h_air |-> RatInt(15)]

-----------------------------------------------------------------------------
(* validate_design: the messages are kept without the formatted value *)

velocity_warnings(velocity, ref_props) ==
    IF RatLess(velocity, ref_props.min_velocity_fps)
    THEN <<"Low refrigerant velocity - oil return concerns">> ELSE <<>>

\* the check against MAX_REFRIGERANT_VELOCITY (60 ft/s) instead of the
\* refrigerant's own limit
velocity_errors_global_limit(velocity, ref_props) ==
    IF ~RatLess(velocity, ref_props.min_velocity_fps)
       /\ RatGreater(velocity, RatInt(60))
    THEN <<"Excessive refrigerant velocity - high pressure drop">> ELSE <<>>

velocity_errors(velocity, ref_props) ==
    IF ~RatLess(velocity, ref_props.min_velocity_fps)
       /\ RatGreater(velocity, ref_props.max_velocity_fps)
    THEN <<"Excessive refrigerant velocity - high pressure drop">> ELSE <<>>

air_dp_warnings(air_dp) ==
    IF AirDpGreater(air_dp, MAX_AIR_PRESSURE_DROP)
    THEN <<"High air pressure drop - check fan capacity">> ELSE <<>>

face_velocity_warnings(face_velocity) ==
    IF RatLess(face_velocity, RatInt(300))
    THEN <<"Low face velocity may reduce heat transfer">>
    ELSE IF RatGreater(face_velocity, RatInt(600))
    THEN <<"High face velocity increases pressure drop">> ELSE <<>>

reynolds_warnings(reynolds) ==
    IF RatLess(reynolds, RatInt(2000))
    THEN <<"Laminar flow conditions - consider increasing velocity">> ELSE <<>>

validate_design(ref_performance, pressure_drops, geometry, refrigerant) ==
    LET ref_props == REFRIGERANT_PROPERTIES[refrigerant]
        velocity == ref_performance.velocity_ft_s
    IN  [warnings |-> velocity_warnings(velocity, ref_props)
                      \o air_dp_warnings(pressure_drops.air_dp_inwg)
                      \o face_velocity_warnings(geometry.actual_face_velocity_fpm)
                      \o reynolds_warnings(pressure_drops.reynolds_ref),
         errors |-> velocity_errors(velocity, ref_props)]

-----------------------------------------------------------------------------
(* Requests.  A request is what the form hands to main() when the button   *)
(* is pressed, plus two things of its environment: for each rounding whose *)
(* exact argument is a tie, the side the floating-point quotient falls on  *)
(* (fp_tubes, fp_capacity), and the stages in which an exception is raised *)
(* inside the try block although no input of the model makes the code      *)
(* raise there (forced).                                                   *)
(* The widgets of main() offer the capacity in 0.5 .. 100 TR, the airflow  *)
(* in 100 .. 50000 CFM, the tube and the refrigerant among the keys of the *)
(* two tables and the fin thickness in 0.004 .. 0.015 in.  validate_inputs *)
(* and the except clauses are written for values beyond those, which any   *)
(* other caller of the same functions can pass; the request takes such     *)
(* values too.                                                             *)

MaxCapSteps == 1
MaxCfmSteps == 1

\* tenths of a TR: 0 and 100.1 TR are out of range, 0.1 TR and 100 TR the
\* ends of the accepted range, 1.5 TR a tie of tr / 0.6
Capacities == {0, 1, 15, 1000, 1001} \cup {50 * k : k \in 1..MaxCapSteps}

Airflows == {0, 50, 50000, 50001} \cup {4000 * k : k \in 1..MaxCfmSteps}

TubeChoices == DOMAIN TUBE_PROPERTIES \cup {"3/4 inch"}
RefrigerantChoices == DOMAIN REFRIGERANT_PROPERTIES \cup {"R22"}
FinSpacings == {12, 16}
\* thousandths of an inch; 0 makes calculate_fin_efficiency divide by zero
FinThicknesses == {0, 6}
ForcedStages == {"heat_transfer", "pressure_drops"}
\* tenths of an inch WG: the widget's minimum and its default
MaxAirDpLimits == {1, 6}

TieSides(x) == IF IsTie(x) THEN {0, 1} ELSE {0}

Requests ==
    { [tr_x10 |-> t, cfm |-> c, tube_diameter |-> d, refrigerant |-> r,
       fin_spacing |-> s, fin_thickness_x1000 |-> th, max_air_dp_x10 |-> m,
       forced |-> f, fp_tubes |-> ft, fp_capacity |-> fc] :
        t \in Capacities, c \in Airflows, d \in TubeChoices, r \in RefrigerantChoices,
        s \in FinSpacings, th \in FinThicknesses, m \in MaxAirDpLimits,
        f \in SUBSET ForcedStages, ft \in {0, 1}, fc \in {0, 1} }

\* a local that is not bound yet
Unset == [unset |-> TRUE]

\* the requests submitted when runs are repeated: two that finish, one that
\* calculate_refrigerant_performance aborts and one that validate_inputs
\* rejects
RepeatRequests ==
    { [tr_x10 |-> x[1], cfm |-> x[2], tube_diameter |-> "3/8 inch", refrigerant |-> x[3],
       fin_spacing |-> 12, fin_thickness_x1000 |-> 6, max_air_dp_x10 |-> 6,
       forced |-> {}, fp_tubes |-> 0, fp_capacity |-> 0] :
        x \in {<<50, 50, "R410A">>, <<50, 4000, "R410A">>, <<50, 4000, "R22">>,
               <<1001, 4000, "R410A">>} }

\* the tie sides are open only where there is a tie
WellFormed(q) ==
    /\ q.fp_tubes \in (IF q.cfm > 0 THEN TieSides(tubes_per_row_float(q.cfm)) ELSE {0})
    /\ q.fp_capacity \in
          (IF q.tr_x10 > 0 /\ q.refrigerant \in DOMAIN REFRIGERANT_PROPERTIES
           THEN TieSides(RatDiv(Rat(q.tr_x10, 10),
                                REFRIGERANT_PROPERTIES[q.refrigerant].circuits_per_tr))
           ELSE {0})

-----------------------------------------------------------------------------
(* main(): one run per press of the button *)

VARIABLES
    pc,                \* where main() stands
    request,           \* the form's values of this run
    errors, warnings,  \* what validate_inputs returned
    geometry, circuits, ref_performance, heat_transfer, pressure_drops,
    fin_efficiency,    \* the stages' results
    design_warnings, design_errors,  \* what validate_design returned
    export_data,       \* the result mapping
    screen,            \* the st.error / st.warning / st.success messages shown
    log,               \* the logger.error records
    call,              \* a stage function called on its own: arguments and outcome
    history            \* of the finished runs: per request the outcome of its first
                       \* run, and the request and outcome of the last run

vars == <<pc, request, errors, warnings, geometry, circuits, ref_performance,
          heat_transfer, pressure_drops, fin_efficiency, design_warnings,
          design_errors, export_data, screen, log, call, history>>


tr_design == Rat(request.tr_x10, 10)

Shown(kind, messages) == [i \in 1..Len(messages) |-> [kind |-> kind, text |-> messages[i]]]

Init ==
    /\ pc = "idle"
    /\ request = Unset
    /\ errors = <<>> /\ warnings = <<>>
    /\ geometry = Unset /\ circuits = 0 /\ ref_performance = Unset
    /\ heat_transfer = Unset /\ pressure_drops = Unset /\ fin_efficiency = Unset
    /\ design_warnings = <<>> /\ design_errors = <<>>
    /\ export_data = Unset
    /\ screen = <<>> /\ log = <<>>
    /\ call = Unset
    /\ history = [first |-> [q \in RepeatRequests |-> Unset], last |-> Unset]

\* the button is pressed with the form's values
Submit ==
    /\ pc = "idle"
    /\ \E q \in Requests : WellFormed(q) /\ request' = q
    /\ pc' = "validate_inputs"
    /\ UNCHANGED <<errors, warnings, geometry, circuits, ref_performance, heat_transfer,
                   pressure_drops, fin_efficiency, design_warnings, design_errors,
                   export_data, screen, log>>
    /\ UNCHANGED <<call, history>>

\* an exception that reaches main()'s handler: the run ends with an error
\* message and a log record, and no result
Abort(records) ==
    /\ pc' = "failed"
    /\ screen' = screen \o <<[kind |-> "error", text |-> "Calculation error"]>>
    /\ log' = log \o records \o <<"Main calculation error">>

\* main() returning on warnings as it does on errors
ValidateInputsStoppingOnWarnings ==
    /\ pc = "validate_inputs"
    /\ LET v == validate_inputs(request.tr_x10, request.cfm)
       IN  /\ errors' = v.errors
           /\ warnings' = v.warnings
           /\ IF v.errors # <<>>
              THEN /\ screen' = screen \o Shown("error", v.errors)
                   /\ pc' = "rejected"
              ELSE /\ screen' = screen \o Shown("warning", v.warnings)
                   /\ pc' = IF v.warnings # <<>> THEN "rejected" ELSE "geometry"
    /\ UNCHANGED <<request, geometry, circuits, ref_performance, heat_transfer,
                   pressure_drops, fin_efficiency, design_warnings, design_errors,
                   export_data, log>>
    /\ UNCHANGED <<call, history>>

\* main() showing the warnings before it looks at the errors
ValidateInputsShowingWarningsFirst ==
    /\ pc = "validate_inputs"
    /\ LET v == validate_inputs(request.tr_x10, request.cfm)
       IN  /\ errors' = v.errors
           /\ warnings' = v.warnings
           /\ IF v.errors # <<>>
              THEN /\ screen' = screen \o Shown("warning", v.warnings)
                                       \o Shown("error", v.errors)
                   /\ pc' = "rejected"
              ELSE /\ screen' = screen \o Shown("warning", v.warnings)
                   /\ pc' = "geometry"
    /\ UNCHANGED <<request, geometry, circuits, ref_performance, heat_transfer,
                   pressure_drops, fin_efficiency, design_warnings, design_errors,
                   export_data, log>>
    /\ UNCHANGED <<call, history>>

ValidateInputs ==
    /\ pc = "validate_inputs"
    /\ LET v == validate_inputs(request.tr_x10, request.cfm)
       IN  /\ errors' = v.errors
           /\ warnings' = v.warnings
           /\ IF v.errors # <<>>
              THEN /\ screen' = screen \o Shown("error", v.errors)
                   /\ pc' = "rejected"
              ELSE /\ screen' = screen \o Shown("warning", v.warnings)
                   /\ pc' = "geometry"
    /\ UNCHANGED <<request, geometry, circuits, ref_performance, heat_transfer,
                   pressure_drops, fin_efficiency, design_warnings, design_errors,
                   export_data, log>>
    /\ UNCHANGED <<call, history>>

CoilGeometry ==
    /\ pc = "geometry"
    /\ IF geometry_raises(request.tube_diameter)
       THEN /\ Abort(<<"Error in coil geometry calculation">>)
            /\ UNCHANGED geometry
       ELSE /\ geometry' = calculate_coil_geometry(tr_design, request.cfm,
                                                   request.tube_diameter, request.fp_tubes)
            /\ pc' = "circuits"
            /\ UNCHANGED <<screen, log>>
    /\ UNCHANGED <<request, errors, warnings, circuits, ref_performance, heat_transfer,
                   pressure_drops, fin_efficiency, design_warnings, design_errors,
                   export_data>>
    /\ UNCHANGED <<call, history>>

EnhancedCircuits ==
    /\ pc = "circuits"
    /\ IF circuits_raises(request.refrigerant)
       THEN /\ circuits' = circuits_fallback(tr_design)
            /\ log' = log \o <<"Error in circuit calculation">>
       ELSE /\ circuits' = calculate_enhanced_circuits(tr_design, geometry,
                                                       request.refrigerant, request.fp_capacity)
            /\ UNCHANGED log
    /\ pc' = "performance"
    /\ UNCHANGED <<request, errors, warnings, geometry, ref_performance, heat_transfer,
                   pressure_drops, fin_efficiency, design_warnings, design_errors,
                   export_data, screen>>
    /\ UNCHANGED <<call, history>>

\* calculate_refrigerant_performance handled like the later stages: the
\* exception is logged and a placeholder returned
RefrigerantPerformanceSubstitutes ==
    /\ pc = "performance"
    /\ IF performance_raises(circuits, request.tube_diameter, request.refrigerant)
       THEN /\ ref_performance' = [total_mass_flow_lbm_hr |-> RatInt(100),
                                   mass_flow_per_circuit_lbm_hr |-> RatInt(100),
                                   velocity_ft_s |-> RatInt(25),
                                   mass_velocity_lbm_hr_ft2 |-> RatInt(100000),
                                   volumetric_flow_ft3_s |-> RatInt(1)]
            /\ log' = log \o <<"Error in refrigerant performance calculation">>
       ELSE /\ ref_performance' = calculate_refrigerant_performance(
                                      tr_design, circuits, request.tube_diameter,
                                      request.refrigerant)
            /\ UNCHANGED log
    /\ pc' = "heat_transfer"
    /\ UNCHANGED <<request, errors, warnings, geometry, circuits, heat_transfer,
                   pressure_drops, fin_efficiency, design_warnings, design_errors,
                   export_data, screen>>
    /\ UNCHANGED <<call, history>>

RefrigerantPerformance ==
    /\ pc = "performance"
    /\ IF performance_raises(circuits, request.tube_diameter, request.refrigerant)
       THEN /\ Abort(<<"Error in refrigerant performance calculation">>)
            /\ UNCHANGED ref_performance
       ELSE /\ ref_performance' = calculate_refrigerant_performance(
                                      tr_design, circuits, request.tube_diameter,
                                      request.refrigerant)
            /\ pc' = "heat_transfer"
            /\ UNCHANGED <<screen, log>>
    /\ UNCHANGED <<request, errors, warnings, geometry, circuits, heat_transfer,
                   pressure_drops, fin_efficiency, design_warnings, design_errors,
                   export_data>>
    /\ UNCHANGED <<call, history>>

HeatTransfer ==
    /\ pc = "heat_transfer"
    /\ IF \/ "heat_transfer" \in request.forced
          \/ heat_transfer_raises(request.tube_diameter, request.refrigerant)
       THEN /\ heat_transfer' = heat_transfer_fallback
            /\ log' = log \o <<"Error in heat transfer calculation">>
       ELSE /\ heat_transfer' = calculate_heat_transfer_coefficient(
                                    ref_performance, request.tube_diameter,
                                    request.refrigerant)
            /\ UNCHANGED log
    /\ pc' = "pressure_drops"
    /\ UNCHANGED <<request, errors, warnings, geometry, circuits, ref_performance,
                   pressure_drops, fin_efficiency, design_warnings, design_errors,
                   export_data, screen>>
    /\ UNCHANGED <<call, history>>

PressureDrops ==
    /\ pc = "pressure_drops"
    /\ IF \/ "pressure_drops" \in request.forced
          \/ pressure_drops_raises(ref_performance, request.tube_diameter,
                                   request.refrigerant)
       THEN /\ pressure_drops' = pressure_drops_fallback
            /\ log' = log \o <<"Error in pressure drop calculation">>
       ELSE /\ pressure_drops' = calculate_pressure_drops(
                                     ref_performance, geometry, request.tube_diameter,
                                     request.refrigerant, request.fin_spacing)
            /\ UNCHANGED log
    /\ pc' = "fin_efficiency"
    /\ UNCHANGED <<request, errors, warnings, geometry, circuits, ref_performance,
                   heat_transfer, fin_efficiency, design_warnings, design_errors,
                   export_data, screen>>
    /\ UNCHANGED <<call, history>>

FinEfficiency ==
    /\ pc = "fin_efficiency"
    /\ IF fin_efficiency_raises(request.tube_diameter, request.fin_spacing,
                                request.fin_thickness_x1000)
       THEN /\ fin_efficiency' = fin_efficiency_fallback
            /\ log' = log \o <<"Error in fin efficiency calculation">>
       ELSE /\ fin_efficiency' = calculate_fin_efficiency(
                                     request.tube_diameter, request.fin_spacing,
                                     request.fin_thickness_x1000,
                                     geometry.actual_face_velocity_fpm)
            /\ UNCHANGED log
    /\ pc' = "validate_design"
    /\ UNCHANGED <<request, errors, warnings, geometry, circuits, ref_performance,
                   heat_transfer, pressure_drops, design_warnings, design_errors,
                   export_data, screen>>
    /\ UNCHANGED <<call, history>>

\* validate_design with its two lists kept at module level: the entries of
\* the run before are still in them
ValidateDesignKeepingLists ==
    /\ pc = "validate_design"
    /\ IF request.refrigerant \notin DOMAIN REFRIGERANT_PROPERTIES
       THEN /\ Abort(<<>>)
            /\ UNCHANGED <<design_warnings, design_errors>>
       ELSE LET v == validate_design(ref_performance, pressure_drops, geometry,
                                     request.refrigerant)
                kept == IF history.last = Unset
                        THEN [design_warnings |-> <<>>, design_errors |-> <<>>]
                        ELSE history.last.outcome
            IN  /\ design_warnings' = kept.design_warnings \o v.warnings
                /\ design_errors' = kept.design_errors \o v.errors
                /\ pc' = "display"
                /\ UNCHANGED <<screen, log>>
    /\ UNCHANGED <<request, errors, warnings, geometry, circuits, ref_performance,
                   heat_transfer, pressure_drops, fin_efficiency, export_data>>
    /\ UNCHANGED <<call, history>>

\* REFRIGERANT_PROPERTIES[refrigerant] is outside any try block of
\* validate_design
ValidateDesign ==
    /\ pc = "validate_design"
    /\ IF request.refrigerant \notin DOMAIN REFRIGERANT_PROPERTIES
       THEN /\ Abort(<<>>)
            /\ UNCHANGED <<design_warnings, design_errors>>
       ELSE LET v == validate_design(ref_performance, pressure_drops, geometry,
                                     request.refrigerant)
            IN  /\ design_warnings' = v.warnings
                /\ design_errors' = v.errors
                /\ pc' = "display"
                /\ UNCHANGED <<screen, log>>
    /\ UNCHANGED <<request, errors, warnings, geometry, circuits, ref_performance,
                   heat_transfer, pressure_drops, fin_efficiency, export_data>>
    /\ UNCHANGED <<call, history>>

ExportData ==
    [Design_Capacity_TR |-> tr_design,
     Airflow_CFM |-> request.cfm,
     Tube_Diameter |-> request.tube_diameter,
     Refrigerant |-> request.refrigerant,
     Total_Tubes |-> geometry.total_tubes,
     Rows |-> geometry.rows,
     Tubes_per_Row |-> geometry.tubes_per_row,
     Circuits |-> circuits,
     Coil_Width_ft |-> geometry.coil_width_ft,
     Coil_Depth_ft |-> geometry.coil_depth_ft,
     Face_Area_ft2 |-> geometry.actual_face_area_ft2,
     Face_Velocity_FPM |-> geometry.actual_face_velocity_fpm,
     Surface_Area_ft2 |-> geometry.surface_area_ft2,
     Refrigerant_Velocity_ft_s |-> ref_performance.velocity_ft_s,
     Mass_Flow_Total_lbm_hr |-> ref_performance.total_mass_flow_lbm_hr,
     Air_Pressure_Drop_inWG |-> pressure_drops.air_dp_inwg,
     Ref_Pressure_Drop_psi |-> pressure_drops.ref_dp_psi,
     Reynolds_Number |-> heat_transfer.reynolds,
     Heat_Transfer_Coeff |-> heat_transfer.h_coeff,
     Fin_Efficiency |-> fin_efficiency.fin_efficiency,
     Flow_Regime |-> heat_transfer.flow_regime,
     CFM_per_TR |-> RatDiv(RatInt(request.cfm), tr_design)]

\* the status column of the summary table, row "Air Pressure Drop":
\* passed if air_dp_inwg <= max_air_dp
summary_air_dp_status(air_dp, max_air_dp_x10) ==
    [kind |-> "summary_air_dp",
     text |-> IF AirDpGreater(air_dp, Rat(max_air_dp_x10, 10)) THEN "warning" ELSE "passed"]

\* main() returning after the design review when it holds an error
DisplayResultsUnlessErrors ==
    /\ pc = "display"
    /\ IF design_errors # <<>>
       THEN /\ screen' = screen \o Shown("error", design_errors)
            /\ pc' = "rejected"
            /\ UNCHANGED export_data
       ELSE /\ screen' = screen
                 \o <<[kind |-> "success", text |-> "Calculations completed successfully!"]>>
                 \o Shown("warning", design_warnings)
                 \o <<summary_air_dp_status(pressure_drops.air_dp_inwg,
                                            request.max_air_dp_x10)>>
            /\ export_data' = ExportData
            /\ pc' = "done"
    /\ UNCHANGED <<request, errors, warnings, geometry, circuits, ref_performance,
                   heat_transfer, pressure_drops, fin_efficiency, design_warnings,
                   design_errors, log>>
    /\ UNCHANGED <<call, history>>

\* the results are shown and the result mapping is built
DisplayResults ==
    /\ pc = "display"
    /\ screen' = screen
                 \o <<[kind |-> "success", text |-> "Calculations completed successfully!"]>>
                 \o Shown("warning", design_warnings)
                 \o Shown("error", design_errors)
                 \o <<summary_air_dp_status(pressure_drops.air_dp_inwg,
                                            request.max_air_dp_x10)>>
    /\ export_data' = ExportData
    /\ pc' = "done"
    /\ UNCHANGED <<request, errors, warnings, geometry, circuits, ref_performance,
                   heat_transfer, pressure_drops, fin_efficiency, design_warnings,
                   design_errors, log>>
    /\ UNCHANGED <<call, history>>

\* the script runs again from the top: every local of the last run is gone
Rerun ==
    /\ pc \in {"done", "rejected", "failed"}
    /\ pc' = "idle"
    /\ request' = Unset
    /\ errors' = <<>> /\ warnings' = <<>>
    /\ geometry' = Unset /\ circuits' = 0 /\ ref_performance' = Unset
    /\ heat_transfer' = Unset /\ pressure_drops' = Unset /\ fin_efficiency' = Unset
    /\ design_warnings' = <<>> /\ design_errors' = <<>>
    /\ export_data' = Unset
    /\ screen' = <<>> /\ log' = <<>>
    /\ UNCHANGED <<call, history>>

Next ==
    \/ Submit
    \/ ValidateInputs
    \/ CoilGeometry
    \/ EnhancedCircuits
    \/ RefrigerantPerformance
    \/ HeatTransfer
    \/ PressureDrops
    \/ FinEfficiency
    \/ ValidateDesign
    \/ DisplayResults
    \/ Rerun

Spec == Init /\ [][Next]_vars

-----------------------------------------------------------------------------
(* Repeated runs: the same pipeline, with every finished run remembered *)

\* what a run leaves behind: its position, the stages' results, the lists,
\* the result mapping, the messages shown and the log records
Outcome ==
    [pc |-> pc, errors |-> errors, warnings |-> warnings, geometry |-> geometry,
     circuits |-> circuits, ref_performance |-> ref_performance,
     heat_transfer |-> heat_transfer, pressure_drops |-> pressure_drops,
     fin_efficiency |-> fin_efficiency, design_warnings |-> design_warnings,
     design_errors |-> design_errors, export_data |-> export_data,
     screen |-> screen, log |-> log]

SubmitRepeat ==
    /\ pc = "idle"
    /\ \E q \in RepeatRequests : request' = q
    /\ pc' = "validate_inputs"
    /\ UNCHANGED <<errors, warnings, geometry, circuits, ref_performance, heat_transfer,
                   pressure_drops, fin_efficiency, design_warnings, design_errors,
                   export_data, screen, log>>
    /\ UNCHANGED <<call, history>>

\* the script runs again from the top, the run that ends being remembered
RerunRecorded ==
    /\ pc \in {"done", "rejected", "failed"}
    /\ history' = [first |-> IF history.first[request] = Unset
                             THEN [history.first EXCEPT ![request] = Outcome]
                             ELSE history.first,
                   last |-> [request |-> request, outcome |-> Outcome]]
    /\ pc' = "idle"
    /\ request' = Unset
    /\ errors' = <<>> /\ warnings' = <<>>
    /\ geometry' = Unset /\ circuits' = 0 /\ ref_performance' = Unset
    /\ heat_transfer' = Unset /\ pressure_drops' = Unset /\ fin_efficiency' = Unset
    /\ design_warnings' = <<>> /\ design_errors' = <<>>
    /\ export_data' = Unset
    /\ screen' = <<>> /\ log' = <<>>
    /\ UNCHANGED call

RepeatNext ==
    \/ SubmitRepeat
    \/ ValidateInputs
    \/ CoilGeometry
    \/ EnhancedCircuits
    \/ RefrigerantPerformance
    \/ HeatTransfer
    \/ PressureDrops
    \/ FinEfficiency
    \/ ValidateDesign
    \/ DisplayResults
    \/ RerunRecorded

SpecRepeat == Init /\ [][RepeatNext]_vars

-----------------------------------------------------------------------------
(* The stage functions called on their own, on arguments a caller builds *)

MaxStageTr == 30
MaxStageCfmSteps == 12
MaxReynoldsSteps == 8

\* tenths of a TR: 0.1 .. 3.0 TR, where round(tr / 1.75) goes 0, 1, 2; 100 TR
\* and 150 TR
StageCapacities == 1..MaxStageTr \cup {1000, 1500}
\* 20 .. 240 CFM, where the rounded tubes-per-row estimate goes 0, 1, 2;
\* 9375 CFM is a tie of that estimate
StageAirflows == {20 * k : k \in 1..MaxStageCfmSteps} \cup {9375, 50000, 60000}

\* Reynolds numbers to build a performance record for: a grid, and each
\* threshold with a value just below and just above it
ReynoldsTargets ==
    {RatInt(1500 * k) : k \in 1..MaxReynoldsSteps}
    \cup {Rat(1000 * b + e, 1000) : b \in {2300, 4000, 10000}, e \in {0, 1, 999}}
    \cup {Rat(1000 * (b - 1) + 999, 1000) : b \in {2300, 4000, 10000}}

\* the performance record whose mass velocity gives that Reynolds number
PerformanceWithReynolds(reynolds, tube_dia, refrigerant) ==
    LET inner_dia_ft == RatDiv(TUBE_PROPERTIES[tube_dia].inner_dia_in, RatInt(12))
        mu == REFRIGERANT_PROPERTIES[refrigerant].dynamic_viscosity_lbm_per_ft_hr
    IN  [mass_velocity_lbm_hr_ft2 |-> RatDiv(RatMul(reynolds, mu), inner_dia_ft)]

pipeline_vars == <<pc, request, errors, warnings, geometry, circuits, ref_performance,
                   heat_transfer, pressure_drops, fin_efficiency, design_warnings,
                   design_errors, export_data, screen, log>>

CallGeometry ==
    /\ call = Unset
    /\ \E t \in StageCapacities, c \in StageAirflows, d \in TubeChoices :
         \E up \in TieSides(tubes_per_row_float(c)) :
            call' = [fn |-> "calculate_coil_geometry",
                     args |-> [tr_x10 |-> t, cfm |-> c, tube_dia |-> d, fp_tubes |-> up],
                     raised |-> geometry_raises(d),
                     value |-> IF geometry_raises(d) THEN Unset
                               ELSE calculate_coil_geometry(Rat(t, 10), c, d, up)]
    /\ UNCHANGED <<pipeline_vars, history>>

CallHeatTransfer ==
    /\ call = Unset
    /\ \E re \in ReynoldsTargets, d \in TubeChoices, r \in RefrigerantChoices :
         LET perf == IF heat_transfer_raises(d, r)
                     THEN [mass_velocity_lbm_hr_ft2 |-> RatInt(2000)]
                     ELSE PerformanceWithReynolds(re, d, r)
         IN  call' = [fn |-> "calculate_heat_transfer_coefficient",
                      args |-> [ref_performance |-> perf, tube_dia |-> d, refrigerant |-> r],
                      raised |-> FALSE,
                      value |-> IF heat_transfer_raises(d, r) THEN heat_transfer_fallback
                                ELSE calculate_heat_transfer_coefficient(perf, d, r)]
    /\ UNCHANGED <<pipeline_vars, history>>

MaxSizerTrSteps == 12

\* 0.5 .. 6.0 TR in the widget's steps of 0.5
SizerCapacities == {5 * k : k \in 1..MaxSizerTrSteps}
SizerAirflows == {100, 400, 4000}

\* calculate_coil_geometry followed by calculate_enhanced_circuits, as main()
\* chains them, for a request with a tube and a refrigerant of the tables
circuiting_of(q) ==
    LET g == calculate_coil_geometry(Rat(q.tr_x10, 10), q.cfm, q.tube_diameter, q.fp_tubes)
    IN  [rows |-> g.rows, tubes_per_row |-> g.tubes_per_row, total_tubes |-> g.total_tubes,
         circuits |-> calculate_enhanced_circuits(Rat(q.tr_x10, 10), g, q.refrigerant,
                                                  q.fp_capacity)]

SizerRequest(t, c, d, r, ft, fc) ==
    [tr_x10 |-> t, cfm |-> c, tube_diameter |-> d, refrigerant |-> r,
     fp_tubes |-> ft, fp_capacity |-> fc]

\* two requests with the same refrigerant: either with the same tube, the
\* second with the larger capacity, or differing in nothing but the tube
CallSizerPair ==
    /\ call = Unset
    /\ \E t1, t2 \in SizerCapacities, c1, c2 \in SizerAirflows,
          d1, d2 \in DOMAIN TUBE_PROPERTIES, r \in DOMAIN REFRIGERANT_PROPERTIES :
         /\ IF d1 = d2 THEN t1 < t2 ELSE t1 = t2 /\ c1 = c2
         /\ \E ft1 \in TieSides(tubes_per_row_float(c1)),
               ft2 \in TieSides(tubes_per_row_float(c2)),
               fc1 \in TieSides(RatDiv(Rat(t1, 10), REFRIGERANT_PROPERTIES[r].circuits_per_tr)),
               fc2 \in TieSides(RatDiv(Rat(t2, 10), REFRIGERANT_PROPERTIES[r].circuits_per_tr)) :
              /\ c1 = c2 => ft1 = ft2
              /\ t1 = t2 => fc1 = fc2
              /\ LET q == <<SizerRequest(t1, c1, d1, r, ft1, fc1),
                            SizerRequest(t2, c2, d2, r, ft2, fc2)>>
                 IN  call' = [fn |-> "circuiting", args |-> q, raised |-> FALSE,
                              value |-> [i \in 1..2 |-> circuiting_of(q[i])]]
    /\ UNCHANGED <<pipeline_vars, history>>

\* the caller drops the result and is free to call again
Return ==
    /\ call # Unset
    /\ call' = Unset
    /\ UNCHANGED <<pipeline_vars, history>>

StagesNext == CallGeometry \/ CallHeatTransfer \/ CallSizerPair \/ Return

SpecStages == Init /\ [][StagesNext]_vars

-----------------------------------------------------------------------------
(* Properties *)

Range(seq) == {seq[i] : i \in DOMAIN seq}

\* x is the number n / d
IsNumber(x, n, d) == ~IsTerm(x) /\ RatEq(x, Rat(n, d))

Accepted(q) == q.tr_x10 > 0 /\ q.tr_x10 <= 1000 /\ q.cfm > 0 /\ q.cfm <= 50000

\* the positions of main() after the call of each stage has returned
AfterCircuits == {"performance", "heat_transfer", "pressure_drops", "fin_efficiency",
                  "validate_design", "display", "done"}
AfterPerformance == AfterCircuits \ {"performance"}
AfterHeatTransfer == AfterPerformance \ {"heat_transfer"}
AfterPressureDrops == AfterHeatTransfer \ {"pressure_drops"}
AfterFinEfficiency == AfterPressureDrops \ {"fin_efficiency"}

AfterGeometry == AfterCircuits \cup {"circuits"}

NoStageResult ==
    /\ geometry = Unset /\ circuits = 0 /\ ref_performance = Unset
    /\ heat_transfer = Unset /\ pressure_drops = Unset /\ fin_efficiency = Unset

NoResult ==
    /\ export_data = Unset
    /\ [kind |-> "success", text |-> "Calculations completed successfully!"] \notin Range(screen)

\* C1: for a request validate_inputs accepted, once calculate_enhanced_circuits
\* has returned without taking its except branch (the refrigerant is a key of
\* the table), the circuit count is at least 1 and at most the geometry's
\* total tube count.
C1_CircuitsWithinTubes ==
    (/\ pc \in AfterCircuits
     /\ Accepted(request)
     /\ ~circuits_raises(request.refrigerant))
        => (1 <= circuits /\ circuits <= geometry.total_tubes)

\* C1, the case where the capacity-based candidate exceeds the tube count and
\* the clamp decides the result
C1_Witness ==
    /\ pc = "performance"
    /\ Accepted(request)
    /\ ~circuits_raises(request.refrigerant)
    /\ circuits_from_capacity(tr_design, request.refrigerant, request.fp_capacity)
          > geometry.total_tubes
    /\ circuits = geometry.total_tubes

\* C2: calculate_coil_geometry, called with a capacity > 0 and an airflow > 0
\* (and a tube of the table), returns whole numbers rows >= 1 and
\* tubes_per_row >= 1, and total_tubes = rows * tubes_per_row.
C2_GeometryCounts ==
    (/\ call # Unset
     /\ call.fn = "calculate_coil_geometry"
     /\ call.args.tr_x10 > 0 /\ call.args.cfm > 0
     /\ ~call.raised)
        => /\ call.value.rows \in Nat /\ call.value.rows >= 1
           /\ call.value.tubes_per_row \in Nat /\ call.value.tubes_per_row >= 1
           /\ call.value.total_tubes = call.value.rows * call.value.tubes_per_row

\* C2, the case where both rounded estimates are 0 (0.1 TR, 20 CFM) and the
\* lower limits decide
C2_Witness ==
    /\ call # Unset
    /\ call.fn = "calculate_coil_geometry"
    /\ call.args.tr_x10 = 1 /\ call.args.cfm = 20
    /\ ~call.raised
    /\ RoundHalfEven(RatDiv(Rat(1, 10), Rat(175, 100))) = 0
    /\ RoundHalfEven(tubes_per_row_float(20)) = 0
    /\ call.value.rows = 1 /\ call.value.tubes_per_row = 1 /\ call.value.total_tubes = 1

\* the ranges as the specification states them
OutOfRange(q) == q.tr_x10 <= 0 \/ q.tr_x10 > 1000 \/ q.cfm <= 0 \/ q.cfm > 50000

\* C3: when the capacity is outside (0, 100] TR or the airflow outside
\* (0, 50000] CFM, validate_inputs returns at least one error, every error is
\* shown, main() returns at once: no stage has run and there is no result.
C3_OutOfRangeRejected ==
    (/\ request # Unset
     /\ OutOfRange(request)
     /\ pc # "validate_inputs")
        => /\ pc = "rejected"
           /\ errors # <<>>
           /\ \A i \in DOMAIN errors : [kind |-> "error", text |-> errors[i]] \in Range(screen)
           /\ NoStageResult
           /\ design_warnings = <<>> /\ design_errors = <<>>
           /\ NoResult

\* C3, an airflow just above the limit with a capacity in range
C3_Witness ==
    /\ pc = "rejected"
    /\ request.cfm = 50001
    /\ request.tr_x10 = 15
    /\ Len(errors) = 1

\* C4: when calculate_coil_geometry or calculate_refrigerant_performance
\* raises, main() ends in its exception handler: a calculation error is shown,
\* the failing stage and every later one have left no value (no fallback is
\* substituted) and there is no result.
C4_GeometryAndPerformanceAbort ==
    /\ (/\ pc \in AfterGeometry \cup {"failed"}
        /\ geometry_raises(request.tube_diameter))
          => /\ pc = "failed"
             /\ NoStageResult
             /\ [kind |-> "error", text |-> "Calculation error"] \in Range(screen)
             /\ NoResult
    /\ (/\ pc \in AfterPerformance \cup {"failed"}
        /\ ~geometry_raises(request.tube_diameter)
        /\ performance_raises(circuits, request.tube_diameter, request.refrigerant))
          => /\ pc = "failed"
             /\ ref_performance = Unset /\ heat_transfer = Unset
             /\ pressure_drops = Unset /\ fin_efficiency = Unset
             /\ design_warnings = <<>> /\ design_errors = <<>>
             /\ [kind |-> "error", text |-> "Calculation error"] \in Range(screen)
             /\ NoResult

\* C4, the run that passed geometry and circuits and was aborted by
\* calculate_refrigerant_performance
C4_Witness ==
    /\ pc = "failed"
    /\ geometry # Unset /\ circuits >= 1
    /\ performance_raises(circuits, request.tube_diameter, request.refrigerant)
    /\ "Error in refrigerant performance calculation" \in Range(log)

\* the conditions under which each of the three later stages takes its
\* except branch
HeatTransferFails ==
    \/ "heat_transfer" \in request.forced
    \/ heat_transfer_raises(request.tube_diameter, request.refrigerant)
PressureDropsFails ==
    \/ "pressure_drops" \in request.forced
    \/ pressure_drops_raises(ref_performance, request.tube_diameter, request.refrigerant)
FinEfficiencyFails ==
    fin_efficiency_raises(request.tube_diameter, request.fin_spacing,
                          request.fin_thickness_x1000)

SoftStageRecords == {"Error in heat transfer calculation",
                     "Error in pressure drop calculation",
                     "Error in fin efficiency calculation"}

\* the order of main() from the first stage with an except branch of its own
StageAfter == [heat_transfer |-> "pressure_drops", pressure_drops |-> "fin_efficiency",
               fin_efficiency |-> "validate_design", validate_design |-> "display",
               display |-> "done"]

\* a later stage has taken its except branch in this run
SoftStageFailed == Range(log) \cap SoftStageRecords # {}

\* the run has gone through DisplayResults: the success message, the design
\* review and the result mapping with its 22 entries
Completed ==
    /\ pc = "done"
    /\ [kind |-> "success", text |-> "Calculations completed successfully!"] \in Range(screen)
    /\ export_data # Unset
    /\ Cardinality(DOMAIN export_data) = 22

Placeholders ==
    /\ (pc \in AfterHeatTransfer /\ HeatTransferFails)
          => /\ DOMAIN heat_transfer
                   = {"h_coeff", "reynolds", "prandtl", "nusselt", "flow_regime"}
             /\ IsNumber(heat_transfer.h_coeff, 100, 1)
             /\ IsNumber(heat_transfer.reynolds, 5000, 1)
             /\ IsNumber(heat_transfer.prandtl, 1, 1)
             /\ IsNumber(heat_transfer.nusselt, 20, 1)
             /\ heat_transfer.flow_regime = "Estimated"
    /\ (pc \in AfterPressureDrops /\ PressureDropsFails)
          => /\ DOMAIN pressure_drops
                   = {"air_dp_inwg", "ref_dp_psi", "reynolds_ref", "friction_factor"}
             /\ IsNumber(pressure_drops.air_dp_inwg, 1, 10)
             /\ IsNumber(pressure_drops.ref_dp_psi, 1, 1)
             /\ IsNumber(pressure_drops.reynolds_ref, 5000, 1)
             /\ IsNumber(pressure_drops.friction_factor, 2, 100)
    /\ (pc \in AfterFinEfficiency /\ FinEfficiencyFails)
          => /\ DOMAIN fin_efficiency
                   = {"fin_efficiency", "surface_effectiveness", "fin_height_in", "h_air"}
             /\ IsNumber(fin_efficiency.fin_efficiency, 85, 100)
             /\ IsNumber(fin_efficiency.surface_effectiveness, 90, 100)
             /\ IsNumber(fin_efficiency.fin_height_in, 5, 10)
             /\ IsNumber(fin_efficiency.h_air, 15, 1)
    /\ SoftStageFailed => pc \in AfterHeatTransfer

\* C5: when the heat-transfer, pressure-drop or fin-efficiency stage fails
\* internally its result is exactly the placeholder (heat transfer: h 100,
\* Reynolds 5000, Prandtl 1, Nusselt 20, regime "Estimated"; pressure drops:
\* air 0.1, refrigerant 1.0, Reynolds 5000, friction 0.02; fin: 0.85, 0.90,
\* 0.5, 15), the run is never aborted after such a failure: every step of
\* it leads to the next stage, and at the end the result is produced.
C5_SoftStagesFallBack ==
    /\ []Placeholders
    /\ [](SoftStageFailed /\ pc = "done" => Completed)
    /\ [][SoftStageFailed /\ pc \in DOMAIN StageAfter => pc' = StageAfter[pc]]_vars

\* C5, a finished run in which all three stages failed
C5_Witness ==
    /\ pc = "done"
    /\ HeatTransferFails /\ PressureDropsFails /\ FinEfficiencyFails
    /\ SoftStageRecords \subseteq Range(log)
    /\ heat_transfer.flow_regime = "Estimated"
    /\ export_data # Unset

\* calculate_enhanced_circuits has run and taken its except branch
CircuitsFellBack ==
    /\ pc \in AfterCircuits \cup {"failed"}
    /\ geometry # Unset
    /\ circuits_raises(request.refrigerant)

\* max(1, round(capacity / 2)) for a capacity of t tenths of a TR, halves to
\* the even neighbour
HalfCapacityRounded(t) ==
    LET q == t \div 20
        r == t % 20
        rounded == IF r < 10 THEN q
                   ELSE IF r > 10 THEN q + 1
                   ELSE IF q % 2 = 0 THEN q ELSE q + 1
    IN  IF rounded < 1 THEN 1 ELSE rounded

\* C6 as stated: when calculate_enhanced_circuits raises because the
\* refrigerant key is invalid, the circuit count is max(1, round(capacity/2)),
\* no error is reported, and the run continues to completion: it is never
\* aborted and the finished run holds the result with that circuit count.
C6_AsStated ==
    CircuitsFellBack
        => /\ circuits = HalfCapacityRounded(request.tr_x10)
           /\ \A i \in DOMAIN screen : screen[i].kind # "error"
           /\ pc # "failed"
           /\ (pc = "done" => export_data # Unset /\ export_data.Circuits = circuits)

\* C6 amended: when calculate_enhanced_circuits raises because the
\* refrigerant key is invalid, the circuit count is max(1, round(capacity/2))
\* and the failure is only logged, nothing is shown; the run continues into
\* calculate_refrigerant_performance with that count, which raises on the
\* same key: the run is aborted with a calculation error and has no result.
C6_FallbackThenAbort ==
    /\ [](CircuitsFellBack
            => /\ circuits = HalfCapacityRounded(request.tr_x10)
               /\ "Error in circuit calculation" \in Range(log)
               /\ pc \in {"performance", "failed"}
               /\ (pc = "performance" => \A i \in DOMAIN screen : screen[i].kind # "error")
               /\ (pc = "failed"
                     => /\ [kind |-> "error", text |-> "Calculation error"] \in Range(screen)
                        /\ ref_performance = Unset
                        /\ NoResult))
    /\ [][pc = "performance" /\ CircuitsFellBack => pc' = "failed"]_vars

\* C6, 5 TR with an unknown refrigerant: round(2.5) = 2, then the abort
C6_Witness ==
    /\ pc = "failed"
    /\ CircuitsFellBack
    /\ request.tr_x10 = 50
    /\ circuits = 2
    /\ "Error in refrigerant performance calculation" \in Range(log)

\* C7: validate_design puts exactly one entry in the errors list, and no
\* velocity entry in the warnings list, when the per-circuit velocity is
\* greater than the refrigerant's max_velocity, and leaves the errors list
\* empty in every other case; the list never has more than one entry.
C7_OnlyOverVelocityIsAnError ==
    pc \in {"display", "done"}
        => LET over == RatGreater(ref_performance.velocity_ft_s,
                          REFRIGERANT_PROPERTIES[request.refrigerant].max_velocity_fps)
           IN  /\ Len(design_errors) <= 1
               /\ over => /\ design_errors
                               = <<"Excessive refrigerant velocity - high pressure drop">>
                          /\ \A i \in DOMAIN design_warnings :
                                design_warnings[i] \notin
                                   {"Excessive refrigerant velocity - high pressure drop",
                                    "Low refrigerant velocity - oil return concerns"}
               /\ ~over => design_errors = <<>>

\* C7, a design review with the over-velocity error and warnings of other
\* rules beside it
C7_Witness ==
    /\ pc = "display"
    /\ Len(design_errors) = 1
    /\ design_warnings # <<>>
    /\ RatGreater(ref_performance.velocity_ft_s,
                  REFRIGERANT_PROPERTIES[request.refrigerant].max_velocity_fps)

\* C8: a design-rule violation found by validate_design never suppresses the
\* output: validate_design returns its lists and main() goes on; the step
\* that follows shows the success message, the warnings and the errors and
\* builds the result mapping, with errors exactly as without.
C8_ViolationsNeverSuppressOutput ==
    /\ [](design_errors # <<>> => pc \in {"display", "done"})
    /\ [](pc = "done" =>
            /\ Completed
            /\ \A i \in DOMAIN design_errors :
                  [kind |-> "error", text |-> design_errors[i]] \in Range(screen)
            /\ \A i \in DOMAIN design_warnings :
                  [kind |-> "warning", text |-> design_warnings[i]] \in Range(screen))
    /\ [][pc = "validate_design" /\ request.refrigerant \in DOMAIN REFRIGERANT_PROPERTIES
             => pc' = "display"]_vars
    /\ [][pc = "display" => pc' = "done" /\ export_data' # Unset]_vars

\* C8, a finished run whose design review holds an error
C8_Witness ==
    /\ pc = "done"
    /\ design_errors # <<>>
    /\ export_data # Unset

\* calculate_heat_transfer_coefficient has returned from its try block
HeatTransferCalled ==
    /\ call # Unset
    /\ call.fn = "calculate_heat_transfer_coefficient"
    /\ ~heat_transfer_raises(call.args.tube_dia, call.args.refrigerant)

\* C9: on the non-fallback path the flow_regime label is decided by the
\* Reynolds number alone: "Turbulent" above 4000, "Transition" above 2300 up
\* to and including 4000, "Laminar" up to and including 2300.
C9_FlowRegimeByReynolds ==
    HeatTransferCalled
        => LET re == call.value.reynolds
           IN  /\ RatGreater(re, RatInt(4000)) => call.value.flow_regime = "Turbulent"
               /\ (RatGreater(re, RatInt(2300)) /\ ~RatGreater(re, RatInt(4000)))
                     => call.value.flow_regime = "Transition"
               /\ ~RatGreater(re, RatInt(2300)) => call.value.flow_regime = "Laminar"

\* C9, a Reynolds number of exactly 4000: still "Transition"
C9_Witness ==
    /\ HeatTransferCalled
    /\ RatEq(call.value.reynolds, RatInt(4000))
    /\ call.value.flow_regime = "Transition"

\* C10 as stated: at a Reynolds number of exactly 2300 the flow_regime is
\* "Transition" and the Nusselt number is 3.66.
C10_AsStated ==
    (HeatTransferCalled /\ RatEq(call.value.reynolds, RatInt(2300)))
        => /\ call.value.flow_regime = "Transition"
           /\ IsNumber(call.value.nusselt, 366, 100)

\* C10 amended: at a Reynolds number of exactly 2300 the flow_regime is
\* "Laminar" (the label becomes "Transition" only above 2300) and the
\* Nusselt number is the laminar value 3.66.
C10_LaminarAt2300 ==
    (HeatTransferCalled /\ RatEq(call.value.reynolds, RatInt(2300)))
        => /\ call.value.flow_regime = "Laminar"
           /\ IsNumber(call.value.nusselt, 366, 100)

\* C10, the call whose performance record gives exactly 2300
C10_Witness ==
    /\ HeatTransferCalled
    /\ RatEq(reynolds_of(call.args.ref_performance, call.args.tube_dia,
                         call.args.refrigerant), RatInt(2300))
    /\ RatEq(call.value.reynolds, RatInt(2300))
    /\ call.value.flow_regime = "Laminar"

\* C11: two runs on identical request values leave identical outcomes: a
\* finished run of a request that has been run before has the stage results,
\* the result mapping, the warning and error lists and the messages of that
\* request's first run, whatever was run in between.
C11_SameRequestSameOutcome ==
    (/\ pc \in {"done", "rejected", "failed"}
     /\ history.first[request] # Unset)
        => Outcome = history.first[request]

\* C11, a finished run with warnings, of a request that was run before, with
\* a run of another request in between
C11_Witness ==
    /\ pc = "done"
    /\ history.first[request] # Unset
    /\ history.last.request # request
    /\ design_warnings # <<>>
    /\ export_data = history.first[request].export_data

\* geometry and circuits have been computed for two requests
CircuitingCalled == call # Unset /\ call.fn = "circuiting"

\* C12 as stated: of two valid requests with the same refrigerant and the
\* same tube diameter, the one with the larger capacity never gets the
\* smaller circuit count.
C12_AsStated ==
    (/\ CircuitingCalled
     /\ call.args[1].refrigerant = call.args[2].refrigerant
     /\ call.args[1].tube_diameter = call.args[2].tube_diameter
     /\ call.args[1].tr_x10 < call.args[2].tr_x10)
        => call.value[1].circuits <= call.value[2].circuits

\* C12 amended: of two valid requests with the same refrigerant, the same
\* tube diameter and the same airflow, the one with the larger capacity never
\* gets the smaller circuit count.
C12_MonotoneAtEqualAirflow ==
    (/\ CircuitingCalled
     /\ call.args[1].refrigerant = call.args[2].refrigerant
     /\ call.args[1].tube_diameter = call.args[2].tube_diameter
     /\ call.args[1].cfm = call.args[2].cfm
     /\ call.args[1].tr_x10 < call.args[2].tr_x10)
        => call.value[1].circuits <= call.value[2].circuits

\* C12, two requests at the same airflow where the larger capacity gets more
\* circuits, the smaller one being limited by its tube count
C12_Witness ==
    /\ CircuitingCalled
    /\ call.args[1].refrigerant = call.args[2].refrigerant
    /\ call.args[1].tube_diameter = call.args[2].tube_diameter
    /\ call.args[1].cfm = call.args[2].cfm
    /\ call.args[1].tr_x10 < call.args[2].tr_x10
    /\ call.value[1].circuits = call.value[1].total_tubes
    /\ call.value[1].circuits < call.value[2].circuits

\* a request that passes validate_inputs and names a tube and a refrigerant
\* of the tables
ValidRequest(q) ==
    /\ Accepted(q)
    /\ q.tube_diameter \in DOMAIN TUBE_PROPERTIES
    /\ q.refrigerant \in DOMAIN REFRIGERANT_PROPERTIES

\* the three candidates as the claims word them, for a capacity of t tenths of
\* a TR; up is the side the capacity quotient takes at a rounding tie
ClaimedCapacityCandidate(t, refrigerant, up) ==
    Max(1, RoundFloat(RatDiv(Rat(t, 10), REFRIGERANT_PROPERTIES[refrigerant].circuits_per_tr),
                      up))

ClaimedTubesCandidate(total_tubes) == Max(1, (total_tubes + 17) \div 18)

ClaimedVelocityCandidate(t, refrigerant) ==
    LET total_mass_flow ==
            RatDiv(Rat(t * 12000, 10),
                   REFRIGERANT_PROPERTIES[refrigerant].refrigerating_effect_btu_per_lbm)
        flow_area == RatDiv(TUBE_PROPERTIES["1/2 inch"].flow_area_in2, RatInt(144))
        vapor_density == REFRIGERANT_PROPERTIES[refrigerant].vapor_density_lbm_per_ft3
    IN  Max(1, RoundFloat(RatDiv(total_mass_flow,
                                 RatMul(RatMul(RatInt(3600 * 25), vapor_density), flow_area)),
                          0))

\* C13: when calculate_enhanced_circuits does not fall back, the circuit count
\* is min(max(c_capacity, c_tubes, c_velocity), total_tubes), with
\* c_capacity = max(1, round(capacity / circuits_per_tr)),
\* c_tubes = max(1, ceil(total_tubes / 18)) and
\* c_velocity = max(1, round(total_mass_flow / (3600 * vapor_density * 25 * flow_area))),
\* total_mass_flow = capacity * 12000 / refrigerating_effect.
C13_CircuitFormula ==
    (/\ pc = "performance"
     /\ ~circuits_raises(request.refrigerant))
        => circuits =
             Min(Max(Max(ClaimedCapacityCandidate(request.tr_x10, request.refrigerant,
                                                  request.fp_capacity),
                         ClaimedTubesCandidate(geometry.total_tubes)),
                     ClaimedVelocityCandidate(request.tr_x10, request.refrigerant)),
                 geometry.total_tubes)

\* C13, a request where the tube-count candidate alone decides the count: it
\* exceeds the two others and stays below the tube count
C13_Witness ==
    /\ pc = "performance"
    /\ ~circuits_raises(request.refrigerant)
    /\ circuits > circuits_from_capacity(tr_design, request.refrigerant, request.fp_capacity)
    /\ circuits > circuits_from_velocity(tr_design, request.refrigerant)
    /\ circuits > 1
    /\ circuits < geometry.total_tubes

\* the airflow per TR of the request is below 300 or above 500
RatioOutsideBand(q) == 10 * q.cfm < 300 * q.tr_x10 \/ 10 * q.cfm > 500 * q.tr_x10

\* a run of main() on a valid request whose ratio is outside the band, past
\* its input validation
RatioWarnedRun ==
    /\ pc \notin {"idle", "validate_inputs"}
    /\ ValidRequest(request)
    /\ RatioOutsideBand(request)

\* the order in which main() goes through its stages
StageOrder ==
    [validate_inputs |-> "geometry", geometry |-> "circuits", circuits |-> "performance",
     performance |-> "heat_transfer", heat_transfer |-> "pressure_drops",
     pressure_drops |-> "fin_efficiency", fin_efficiency |-> "validate_design",
     validate_design |-> "display", display |-> "done"]

\* C14: a valid request whose CFM/TR ratio is below 300 or above 500 only gets
\* a warning: validate_inputs returns no error and one warning, which is
\* shown; the run is neither rejected nor aborted, every stage is followed by
\* the next one, and the finished run holds every stage's result and the
\* result mapping.
C14_RatioOnlyWarns ==
    /\ [](RatioWarnedRun =>
            /\ errors = <<>>
            /\ Len(warnings) = 1
            /\ [kind |-> "warning", text |-> warnings[1]] \in Range(screen)
            /\ pc \notin {"rejected", "failed"})
    /\ [][(pc \in DOMAIN StageOrder /\ ValidRequest(request) /\ RatioOutsideBand(request))
             => pc' = StageOrder[pc]]_vars
    /\ [](RatioWarnedRun /\ pc = "done" =>
            /\ Completed
            /\ geometry # Unset /\ circuits >= 1 /\ ref_performance # Unset
            /\ heat_transfer # Unset /\ pressure_drops # Unset /\ fin_efficiency # Unset)

\* C14, a finished run on a request with too little airflow for its capacity
C14_Witness ==
    /\ pc = "done"
    /\ ValidRequest(request)
    /\ 10 * request.cfm < 300 * request.tr_x10
    /\ warnings # <<>>
    /\ Completed

\* the limit the user has set for the air pressure drop
ConfiguredMaxAirDp == Rat(request.max_air_dp_x10, 10)

\* C15 as stated: validate_design emits the air-pressure-drop warning exactly
\* when the computed air pressure drop is greater than the maximum the user
\* has configured for the request.
C15_AsStated ==
    pc \in {"display", "done"}
        => ("High air pressure drop - check fan capacity" \in Range(design_warnings)
               <=> AirDpGreater(pressure_drops.air_dp_inwg, ConfiguredMaxAirDp))

\* C15, what the code does: the warning is emitted exactly when the computed
\* air pressure drop is greater than the constant MAX_AIR_PRESSURE_DROP
\* (0.6 in WG), whatever limit the user has configured; the configured limit
\* only decides the status shown in the summary table.
C15_WarningAtFixedLimit ==
    /\ pc \in {"display", "done"}
          => ("High air pressure drop - check fan capacity" \in Range(design_warnings)
                 <=> AirDpGreater(pressure_drops.air_dp_inwg, Rat(6, 10)))
    /\ pc = "done"
          => ([kind |-> "summary_air_dp", text |-> "warning"] \in Range(screen)
                 <=> AirDpGreater(pressure_drops.air_dp_inwg, ConfiguredMaxAirDp))

\* C15, a finished run whose computed air pressure drop is above the
\* configured 0.1 in WG and below 0.6: the summary table marks it, the design
\* review does not
C15_Witness ==
    /\ pc = "done"
    /\ request.max_air_dp_x10 = 1
    /\ ~PressureDropsFails
    /\ [kind |-> "summary_air_dp", text |-> "warning"] \in Range(screen)
    /\ "High air pressure drop - check fan capacity" \notin Range(design_warnings)

\* calculate_enhanced_circuits has just returned from its try block for a
\* valid request; main() never assigns circuits again
SizedWithoutFallback == pc = "performance" /\ ValidRequest(request)

\* C16 as stated: on the non-fallback path the circuit count is never smaller
\* than any of the three candidates, for every valid request.
C16_AsStated ==
    SizedWithoutFallback
        => /\ circuits >= circuits_from_capacity(tr_design, request.refrigerant,
                                                 request.fp_capacity)
           /\ circuits >= circuits_from_tubes(geometry.total_tubes)
           /\ circuits >= circuits_from_velocity(tr_design, request.refrigerant)

\* C16 amended: on the non-fallback path the circuit count is never smaller
\* than the tube-count candidate, and never smaller than the capacity or the
\* velocity candidate unless that candidate exceeds total_tubes, in which
\* case the count is total_tubes.
C16_NotBelowCandidatesUpToTubes ==
    SizedWithoutFallback
        => LET c_capacity == circuits_from_capacity(tr_design, request.refrigerant,
                                                    request.fp_capacity)
               c_velocity == circuits_from_velocity(tr_design, request.refrigerant)
           IN  /\ circuits >= circuits_from_tubes(geometry.total_tubes)
               /\ IF c_capacity > geometry.total_tubes
                  THEN circuits = geometry.total_tubes
                  ELSE circuits >= c_capacity
               /\ IF c_velocity > geometry.total_tubes
                  THEN circuits = geometry.total_tubes
                  ELSE circuits >= c_velocity

\* C16, a request whose capacity candidate decides the count: it is above
\* the two others and below the tube count
C16_Witness ==
    /\ pc = "performance"
    /\ ValidRequest(request)
    /\ circuits = circuits_from_capacity(tr_design, request.refrigerant, request.fp_capacity)
    /\ circuits > circuits_from_tubes(geometry.total_tubes)
    /\ circuits > circuits_from_velocity(tr_design, request.refrigerant)
    /\ circuits < geometry.total_tubes

\* C17 as stated: the warnings list of validate_inputs is empty whenever its
\* errors list is non-empty.
C17_AsStated == errors # <<>> => warnings = <<>>

\* C17 amended: for a request rejected by hard validation only errors are
\* reported: main() shows the errors of validate_inputs, one entry each, and
\* returns; no warning is shown and no stage has run, although the warnings
\* list of validate_inputs may hold a CFM/TR warning.
C17_RejectedShowsOnlyErrors ==
    pc = "rejected"
        => /\ errors # <<>>
           /\ screen = [i \in DOMAIN errors |-> [kind |-> "error", text |-> errors[i]]]
           /\ NoStageResult
           /\ export_data = Unset

\* C17, a request of 100.1 TR rejected while validate_inputs has also
\* returned a CFM/TR warning
C17_Witness ==
    /\ pc = "rejected"
    /\ request.tr_x10 > 1000
    /\ warnings # <<>>
    /\ Len(screen) = 1

\* C18: the selected tube diameter has no influence on circuiting: two valid
\* requests that differ only in the tube diameter get the same rows,
\* tubes_per_row, total_tubes and circuit count.
C18_TubeDiameterIgnored ==
    (/\ CircuitingCalled
     /\ call.args[1].tube_diameter # call.args[2].tube_diameter
     /\ [call.args[1] EXCEPT !.tube_diameter = call.args[2].tube_diameter] = call.args[2])
        => /\ call.value[1].rows = call.value[2].rows
           /\ call.value[1].tubes_per_row = call.value[2].tubes_per_row
           /\ call.value[1].total_tubes = call.value[2].total_tubes
           /\ call.value[1].circuits = call.value[2].circuits

\* C18, the smallest and the largest tube of the table at 6 TR and 4000 CFM,
\* both sized to the same counts with more than one circuit
C18_Witness ==
    /\ CircuitingCalled
    /\ call.args[1].tube_diameter = "3/8 inch"
    /\ call.args[2].tube_diameter = "5/8 inch"
    /\ [call.args[1] EXCEPT !.tube_diameter = "5/8 inch"] = call.args[2]
    /\ call.args[1].tr_x10 = 60 /\ call.args[1].cfm = 4000
    /\ call.value[1] = call.value[2]
    /\ call.value[1].circuits > 1

\* C19: on the non-fallback path the circuit count keeps the tubes per
\* circuit within the limit of 18: total_tubes <= 18 * circuits for every
\* valid request; the clamp to total_tubes never brings the count below the
\* tube-count candidate.
C19_AtMost18TubesPerCircuit ==
    SizedWithoutFallback
        => /\ geometry.total_tubes <= 18 * circuits
           /\ circuits >= ClaimedTubesCandidate(geometry.total_tubes)

\* C19, a request whose capacity and velocity candidates are 1 and whose 339
\* tubes are not a multiple of 18: the 19 circuits come from the tube count
C19_Witness ==
    /\ pc = "performance"
    /\ ValidRequest(request)
    /\ geometry.total_tubes > 18
    /\ geometry.total_tubes % 18 # 0
    /\ circuits_from_capacity(tr_design, request.refrigerant, request.fp_capacity) = 1
    /\ 18 * (circuits - 1) < geometry.total_tubes

\* C20: when neither calculate_heat_transfer_coefficient nor
\* calculate_pressure_drops falls back, both hold the same Reynolds number,
\* and whenever validate_design has emitted the laminar-flow warning
\* (Reynolds < 2000) the flow regime is "Laminar" and the Nusselt number 3.66.
C20_LaminarWarningMatchesRegime ==
    (/\ pc \in {"display", "done"}
     /\ ~HeatTransferFails
     /\ ~PressureDropsFails)
        => /\ RatEq(heat_transfer.reynolds, pressure_drops.reynolds_ref)
           /\ "Laminar flow conditions - consider increasing velocity"
                  \in Range(design_warnings)
                 => /\ heat_transfer.flow_regime = "Laminar"
                    /\ IsNumber(heat_transfer.nusselt, 366, 100)

\* C20, a finished run without fallback whose Reynolds number is below 2000
\* and which holds the laminar-flow warning
C20_Witness ==
    /\ pc = "done"
    /\ ~HeatTransferFails
    /\ ~PressureDropsFails
    /\ RatLess(pressure_drops.reynolds_ref, RatInt(2000))
    /\ "Laminar flow conditions - consider increasing velocity" \in Range(design_warnings)
    /\ heat_transfer.flow_regime = "Laminar"

=============================================================================
